---- MODULE Spec2Model ----
(***************************************************************************)
(* State-machine model of the viewer application:                          *)
(*   src/src/main.ts            start-up sequence, control panel, Doc      *)
(*                              button, element dropdown, click handler    *)
(*   src/src/MeasurementsUI.ts  measurement panel                          *)
(*                                                                         *)
(* Conventions.                                                            *)
(*   - A JavaScript value that may be null/undefined is a set with at most *)
(*     one element: {} is null/undefined, {v} is the value v.              *)
(*   - A string is a sequence of one-character strings, so that trim() and *)
(*     the emptiness tests are computed and not assumed.                   *)
(*   - A TreeNode reference is the node's index in worldTree; its          *)
(*     model.id is that index (ids are unique per node); 0 is null.        *)
(***************************************************************************)
EXTENDS Integers, Sequences, FiniteSets, TLC

\* ------------------------------------------------------------------ bounds
\* Largest number of resource URLs UrlHelper.getResourceUrls may resolve to.
MaxUrls == 2
\* Largest number of nodes in the world tree after all loads.
MaxNodes == 2

\* ------------------------------------------------------- program constants
\* main.ts:216, the id looked up for 'echappement'.
ID_ECHAPPEMENT == "43f5ec360a6eb64885aef52d54281f2f"
\* main.ts:220, the id looked up for 'catalyseur'.
ID_CATALYSEUR == "7d99a80b449d360e6380c0108737ae1a"
\* An id of the model that the dropdown never asks for.
ID_OTHER == "other-id"
\* main.ts:197-201, the values of the dropdown options.
DropdownValues == {"catalyseur", "echappement", "all"}
\* MeasurementsUI.ts:68-69, range of the precision control.
PrecisionMin == 1
PrecisionMax == 5

Null == 0

\* ----------------------------------------------------------------- strings
SP == " "

RECURSIVE TrimStart(_)
TrimStart(s) ==
    IF s # <<>> /\ Head(s) = SP THEN TrimStart(Tail(s)) ELSE s

RECURSIVE TrimEnd(_)
TrimEnd(s) ==
    IF s # <<>> /\ s[Len(s)] = SP THEN TrimEnd(SubSeq(s, 1, Len(s) - 1)) ELSE s

\* String.prototype.trim
Trim(s) == TrimEnd(TrimStart(s))

\* `x || null` on an optional string: undefined and '' are falsy.
OrNull(x) == IF x = {} \/ x = {<<>>} THEN {} ELSE x

\* -------------------------------------------------------------- input data
\* URL_DOC values a node may carry under properties['Données utilisateur']:
\* none, the empty string, a blank string, and two usable URLs (one padded).
UrlNone  == {}
UrlEmpty == {<<>>}
UrlBlank == {<<SP>>}
UrlA     == {<<"a">>}
UrlB     == {<<"b", SP>>}

\* A scene-graph node as the code reads it: whether model.raw.properties
\* exists, properties.id ("" when absent or empty), and URL_DOC.
MkNode(p, i, u) == [hasProps |-> p, id |-> i, urlDoc |-> u]

NodeKinds ==
    { MkNode(FALSE, "", UrlNone),
      MkNode(TRUE, "", UrlA),
      MkNode(TRUE, ID_CATALYSEUR, UrlNone),
      MkNode(TRUE, ID_CATALYSEUR, UrlA),
      MkNode(TRUE, ID_ECHAPPEMENT, UrlBlank),
      MkNode(TRUE, ID_ECHAPPEMENT, UrlB),
      MkNode(TRUE, ID_OTHER, UrlEmpty) }

\* The node sequences one load may add to a tree that has `have` nodes.
LoadResults(have) ==
    UNION { [1..k -> NodeKinds] : k \in 0..(MaxNodes - have) }

VARIABLES
    mainState,      \* main(): "running" (at an await), "ready", "rejected"
    viewerInit,     \* viewer.init():           "pending" | "done" | "failed"
    urlRes,         \* getResourceUrls(): "none" | "pending" | "done" | "failed"
    loadState,      \* loadObject per URL: "none" | "pending" | "done" | "failed"
    spinning,       \* the spinner is shown
    worldTree,      \* nodes of viewer.getWorldTree()
    treeNodeMap,    \* Map<string, TreeNode>: id -> node reference
    mapBuilds,      \* how many times treeNodeMap was constructed and filled
    measPane,       \* the 'Mesurements' pane exists
    measurementsParams,  \* the object the measurement controls are bound to
    extEnabled,     \* MeasurementsExtension.enabled as assigned by the program
    extOptions,     \* MeasurementsExtension.options as assigned by the program
    changed,        \* measurement fields whose control has fired 'change'
    pane,           \* blades of the 'Control Panel' pane, in order
    btnUrlDoc,      \* let btnUrlDoc: the blade id it refers to, Null for null
    sectionEnabled, \* let sectionEnabled
    sectionsOn,     \* SectionTool.enabled
    clickHandler,   \* the ObjectClicked handler is registered
    selection,      \* SelectionExtension: selected node references
    cameraView,     \* arguments of the last CameraController.setCameraView
    consoleLog,     \* element values for which 'Impossible de trouver' was logged
    windowOpened    \* URL of the last window.open

startVars == <<mainState, viewerInit, urlRes, loadState, spinning, worldTree,
               treeNodeMap, mapBuilds, measPane, clickHandler>>
measVars  == <<measurementsParams, extEnabled, extOptions, changed>>
uiVars    == <<pane, btnUrlDoc, sectionEnabled, sectionsOn, selection,
               cameraView, consoleLog, windowOpened>>
vars      == <<startVars, measVars, uiVars>>


\* ------------------------------------------------------------ initial state
\* MeasurementsUI.ts:9-16.
InitialMeasurementsParams ==
    [type |-> "POINTTOPOINT", vertexSnap |-> TRUE, units |-> "m",
     precision |-> 2, visible |-> TRUE, enabled |-> FALSE]

\* cameraController before any setCameraView call.
CameraUnset == [set |-> FALSE, ids |-> <<>>, transition |-> FALSE]

\* main() has run to its first await (main.ts:25-58): the spinner is shown
\* and viewer.init() is pending.
Init ==
    /\ mainState = "running"
    /\ viewerInit = "pending"
    /\ urlRes = "none"
    /\ loadState = <<>>
    /\ spinning = TRUE
    /\ worldTree = <<>>
    /\ treeNodeMap = <<>>
    /\ mapBuilds = 0
    /\ measPane = FALSE
    /\ measurementsParams = InitialMeasurementsParams
    /\ extEnabled = {}
    /\ extOptions = {}
    /\ changed = {}
    /\ pane = <<>>
    /\ btnUrlDoc = Null
    /\ sectionEnabled = TRUE
    /\ sectionsOn = FALSE
    /\ clickHandler = FALSE
    /\ selection = {}
    /\ cameraView = CameraUnset
    /\ consoleLog = {}
    /\ windowOpened = {}

\* ------------------------------------------------------------ treeNodeMap
\* The predicate without its `&& properties.id`.
HasProperties(node) == node.hasProps

\* The findAll predicate (main.ts:98-99): properties && properties.id.
HasId(node) == node.hasProps /\ node.id # ""

\* findAll: the references of the matching nodes, in tree order.
RECURSIVE FindAll(_, _)
FindAll(tree, i) ==
    IF i > Len(tree) THEN <<>>
    ELSE (IF HasId(tree[i]) THEN <<i>> ELSE <<>>) \o FindAll(tree, i + 1)

\* Map.prototype.set
MapSet(m, k, v) == [x \in (DOMAIN m) \cup {k} |-> IF x = k THEN v ELSE m[x]]

\* Map.prototype.get, Null for undefined
MapGet(m, k) == IF k \in DOMAIN m THEN m[k] ELSE Null

\* tn_GenericModels.forEach(node => treeNodeMap.set(properties.id, node))
RECURSIVE FillMap(_, _, _)
FillMap(tree, found, m) ==
    IF found = <<>> THEN m
    ELSE FillMap(tree, Tail(found), MapSet(m, tree[Head(found)].id, Head(found)))

\* main.ts:92-105
BuildTreeNodeMap(tree) == FillMap(tree, FindAll(tree, 1), <<>>)

\* ------------------------------------------------------------ control panel
\* The three blades main() adds when it builds the pane (main.ts:150-230).
StaticBlades ==
    << [id |-> 1, kind |-> "button", title |-> "Toggle Section Boxes",
        disabled |-> FALSE, opens |-> {}],
       [id |-> 2, kind |-> "button", title |-> "Reset Section Boxes",
        disabled |-> FALSE, opens |-> {}],
       [id |-> 3, kind |-> "list", title |-> "Elements",
        disabled |-> FALSE, opens |-> {}] >>

IsDoc(b) == b.kind = "button" /\ b.title = "Ouvrir URL"

BladeIds(p) == {p[i].id : i \in 1..Len(p)}

\* pane.remove(blade)
PaneRemove(p, id) == SelectSeq(p, LAMBDA b : b.id # id)

\* ---------------------------------------------------------------- start-up
\* The rejection is swallowed, as by a try/catch around the await.
AwaitSwallows(ok) == FALSE

\* An await on a promise that rejects throws out of main(): nothing in
\* main() or at its call site (main.ts:265) catches it.
AwaitThrows(ok) == ~ok

\* All loads started together, as by Promise.all.
LoadStatesAllAtOnce(n) == [i \in 1..n |-> "pending"]

\* The loads in flight when the for-loop is entered (main.ts:74-78): the
\* first one only, each next one is started after the await of the previous.
LoadStatesAtStart(n) == [i \in 1..n |-> IF i = 1 THEN "pending" ELSE "none"]

\* main.ts:80-261, the synchronous tail of main() after the last load.
FinishStartup(tree) ==
    /\ spinning' = FALSE
    /\ extEnabled' = {FALSE}
    /\ measPane' = TRUE
    /\ treeNodeMap' = BuildTreeNodeMap(tree)
    /\ mapBuilds' = mapBuilds + 1
    /\ sectionsOn' = ~sectionsOn
    /\ pane' = StaticBlades
    /\ sectionEnabled' = TRUE
    /\ btnUrlDoc' = Null
    /\ clickHandler' = TRUE
    /\ mainState' = "ready"

finishVars == <<spinning, extEnabled, measPane, treeNodeMap, mapBuilds,
                sectionsOn, pane, sectionEnabled, btnUrlDoc, clickHandler>>

\* main() stays at an await, or is left by an exception.
StayOrThrow(throws) ==
    /\ mainState' = IF throws THEN "rejected" ELSE "running"
    /\ UNCHANGED finishVars

\* await viewer.init() settles (main.ts:58); on success the extensions are
\* created and getResourceUrls is called (main.ts:61-73).
ViewerInitSettles(ok) ==
    /\ mainState = "running"
    /\ viewerInit = "pending"
    /\ viewerInit' = IF ok THEN "done" ELSE "failed"
    /\ urlRes' = IF AwaitThrows(ok) THEN urlRes ELSE "pending"
    /\ StayOrThrow(AwaitThrows(ok))
    /\ UNCHANGED <<loadState, worldTree, measurementsParams, extOptions,
                   changed, selection, cameraView, consoleLog, windowOpened>>

\* await UrlHelper.getResourceUrls(...) settles with n URLs (main.ts:71-74).
UrlsSettle(ok, n) ==
    /\ mainState = "running"
    /\ urlRes = "pending"
    /\ urlRes' = IF ok THEN "done" ELSE "failed"
    /\ IF AwaitThrows(ok)
       THEN StayOrThrow(TRUE) /\ UNCHANGED loadState
       ELSE /\ loadState' = LoadStatesAtStart(n)
            /\ IF n = 0 THEN FinishStartup(worldTree) ELSE StayOrThrow(FALSE)
    /\ UNCHANGED <<viewerInit, worldTree, measurementsParams, extOptions,
                   changed, selection, cameraView, consoleLog, windowOpened>>

\* await viewer.loadObject(loader, true) of URL i settles (main.ts:75-78);
\* the loader has put `nodes` into the world tree.
LoadSettles(i, ok, nodes) ==
    /\ mainState = "running"
    /\ i \in 1..Len(loadState)
    /\ loadState[i] = "pending"
    /\ worldTree' = worldTree \o nodes
    /\ IF AwaitThrows(ok)
       THEN /\ loadState' = [loadState EXCEPT ![i] = "failed"]
            /\ StayOrThrow(TRUE)
       ELSE IF i < Len(loadState)
       THEN /\ loadState' = [loadState EXCEPT
                               ![i] = IF ok THEN "done" ELSE "failed",
                               ![i + 1] = "pending"]
            /\ StayOrThrow(FALSE)
       ELSE /\ loadState' = [loadState EXCEPT
                               ![i] = IF ok THEN "done" ELSE "failed"]
            /\ FinishStartup(worldTree')
    /\ UNCHANGED <<viewerInit, urlRes, measurementsParams, extOptions,
                   changed, selection, cameraView, consoleLog, windowOpened>>

\* --------------------------------------------------------------- Doc button
\* The Doc buttons currently in the pane.
DocButtons == {pane[i] : i \in {j \in 1..Len(pane) : IsDoc(pane[j])}}

\* The old button is left in the pane.
KeepOldButton == pane

\* if (btnUrlDoc) pane.remove(btnUrlDoc)   (main.ts:168-170)
RemoveOldButton == IF btnUrlDoc # Null THEN PaneRemove(pane, btnUrlDoc) ELSE pane

\* The test without its trim().
UrlUsableNoTrim(parameterUrl) == parameterUrl # {}

\* if (parameterUrl && parameterUrl.trim() !== '')   (main.ts:173)
UrlUsable(parameterUrl) ==
    parameterUrl # {} /\ \A s \in parameterUrl : s # <<>> /\ Trim(s) # <<>>

\* A new blade is a new object: its identity differs from every blade of
\* the pane and from the object btnUrlDoc still refers to.
FreshId(p) ==
    CHOOSE id \in 1..(Len(p) + 2) :
        /\ id \notin BladeIds(p) \cup {btnUrlDoc}
        /\ \A other \in 1..(Len(p) + 2) :
               other \notin BladeIds(p) \cup {btnUrlDoc} => id <= other

\* pane.addButton({title: 'Ouvrir URL', disabled, label: 'Doc'}), with the
\* click handler window.open(parameterUrl) when enabled (main.ts:173-189).
NewDocButton(p, parameterUrl) ==
    [id |-> FreshId(p), kind |-> "button", title |-> "Ouvrir URL",
     disabled |-> ~UrlUsable(parameterUrl),
     opens |-> IF UrlUsable(parameterUrl) THEN parameterUrl ELSE {}]

\* createOrUpdateButton (main.ts:166-190)
CreateOrUpdateButton(parameterUrl) ==
    LET button == NewDocButton(RemoveOldButton, parameterUrl) IN
    /\ pane' = Append(RemoveOldButton, button)
    /\ btnUrlDoc' = button.id

\* properties?.['Données utilisateur'] || {}, then userData.URL_DOC || null
\* (main.ts:239-241 and 254-256)
ParameterUrlOf(node) == IF node.hasProps THEN OrNull(node.urlDoc) ELSE {}

\* ------------------------------------------------------------- UI handlers
\* 'Toggle Section Boxes' click (main.ts:150-153)
ToggleSectionClick ==
    /\ mainState = "ready"
    /\ sectionEnabled' = ~sectionEnabled
    /\ sectionsOn' = sectionEnabled'
    /\ UNCHANGED <<startVars, measVars, pane, btnUrlDoc, selection,
                   cameraView, consoleLog, windowOpened>>

\* The hard-coded id each named dropdown value looks up (main.ts:216, 220).
HardCodedId(value) ==
    IF value = "echappement" THEN ID_ECHAPPEMENT ELSE ID_CATALYSEUR

\* The same with the two ids exchanged.
TnFindedSwapped(value) ==
    CASE value = "echappement" -> MapGet(treeNodeMap, ID_CATALYSEUR)
      [] value = "catalyseur"  -> MapGet(treeNodeMap, ID_ECHAPPEMENT)
      [] OTHER                 -> Null

\* tnFinded after the switch (main.ts:205-222); Null where it keeps its
\* initial null.
TnFinded(value) ==
    CASE value = "echappement" -> MapGet(treeNodeMap, ID_ECHAPPEMENT)
      [] value = "catalyseur"  -> MapGet(treeNodeMap, ID_CATALYSEUR)
      [] OTHER                 -> Null

\* Every value resets the view, or none does.
SwitchResetsAlways(value) == TRUE
SwitchResetsNever(value) == FALSE

\* The switch case that resets the view and the Doc button (main.ts:208-213).
SwitchResets(value) == value = "all"

\* targetTreeNode.model.id
ModelId(n) == n

\* The dropdown's 'change' handler (main.ts:204-230) with ZoomOnTreeNode
\* (main.ts:233-245) inlined.
DropdownChange(value) ==
    /\ mainState = "ready"
    /\ LET tnFinded == TnFinded(value) IN
       IF tnFinded # Null
       THEN \* ZoomOnTreeNode(tnFinded)
            /\ selection' = {}
            /\ cameraView' = [set |-> TRUE, ids |-> <<ModelId(tnFinded)>>,
                              transition |-> TRUE]
            /\ CreateOrUpdateButton(ParameterUrlOf(worldTree[tnFinded]))
            /\ UNCHANGED consoleLog
       ELSE /\ IF SwitchResets(value)
               THEN /\ selection' = {}
                    /\ cameraView' = [set |-> TRUE, ids |-> <<>>,
                                      transition |-> FALSE]
                    /\ CreateOrUpdateButton({})
               ELSE UNCHANGED <<selection, cameraView, pane, btnUrlDoc>>
            /\ consoleLog' = consoleLog \cup {value}
    /\ UNCHANGED <<startVars, measVars, sectionEnabled, sectionsOn,
                   windowOpened>>

\* The ObjectClicked handler (main.ts:248-261). hit = Null stands for an
\* event that is null or has no hits; otherwise hit is hits[0].node.
ObjectClicked(hit) ==
    /\ mainState = "ready"
    /\ clickHandler
    /\ IF hit # Null
       THEN CreateOrUpdateButton(ParameterUrlOf(worldTree[hit]))
       ELSE UNCHANGED <<pane, btnUrlDoc>>
    /\ UNCHANGED <<startVars, measVars, sectionEnabled, sectionsOn,
                   selection, cameraView, consoleLog, windowOpened>>

\* A click on the Doc button: a disabled button fires nothing, an enabled
\* one runs window.open(parameterUrl, '_blank') (main.ts:180-182).
DocButtonClick ==
    /\ mainState = "ready"
    /\ \E b \in DocButtons :
        /\ ~b.disabled
        /\ windowOpened' = b.opens
    /\ UNCHANGED <<startVars, measVars, pane, btnUrlDoc, sectionEnabled,
                   sectionsOn, selection, cameraView, consoleLog>>

\* The SelectionExtension created at main.ts:66 selects the object the user
\* picks in the scene; the program itself only ever clears the selection.
UserSelects(n) ==
    /\ mainState = "ready"
    /\ selection' = {n}
    /\ UNCHANGED <<startVars, measVars, pane, btnUrlDoc, sectionEnabled,
                   sectionsOn, cameraView, consoleLog, windowOpened>>

\* ------------------------------------------------------- measurement panel
MeasurementTypes == {"PERPENDICULAR", "POINTTOPOINT"}
UnitsOptions == {"mm", "m", "ft"}

\* The values each control can write into measurementsParams
\* (MeasurementsUI.ts:24, 31, 38-44, 49, 57-60, 65-70).
FieldValues(field) ==
    CASE field = "type"      -> MeasurementTypes
      [] field = "units"     -> UnitsOptions
      [] field = "precision" -> PrecisionMin..PrecisionMax
      [] OTHER               -> BOOLEAN

MeasurementFields ==
    {"enabled", "visible", "type", "vertexSnap", "units", "precision"}

\* measurementsExtension.enabled = measurementsParams.enabled
\* (MeasurementsUI.ts:28)
EnabledAfterChange(params) == {params.enabled}

\* The defaults are assigned instead of the live parameters.
OptionsFromDefaults(params) == {InitialMeasurementsParams}

\* measurementsExtension.options = measurementsParams
\* (MeasurementsUI.ts:35, 46, 53, 62, 72)
OptionsAfterChange(params) == {params}

\* A control writes its new value into measurementsParams and its 'change'
\* handler runs (MeasurementsUI.ts:23-73).
FieldChange(field, value) ==
    /\ mainState = "ready"
    /\ measPane
    /\ measurementsParams' = [measurementsParams EXCEPT ![field] = value]
    /\ IF field = "enabled"
       THEN /\ extEnabled' = EnabledAfterChange(measurementsParams')
            /\ UNCHANGED extOptions
       ELSE /\ extOptions' = OptionsAfterChange(measurementsParams')
            /\ UNCHANGED extEnabled
    /\ changed' = changed \cup {field}
    /\ UNCHANGED <<startVars, uiVars>>

\* ----------------------------------------------------------- specifications
StartupStep ==
    \/ \E ok \in BOOLEAN : ViewerInitSettles(ok)
    \/ \E ok \in BOOLEAN, n \in 0..MaxUrls : UrlsSettle(ok, n)
    \/ \E i \in 1..MaxUrls, ok \in BOOLEAN :
          \E nodes \in LoadResults(Len(worldTree)) : LoadSettles(i, ok, nodes)

UiStep ==
    \/ ToggleSectionClick
    \/ \E value \in DropdownValues : DropdownChange(value)
    \/ \E hit \in 0..Len(worldTree) : ObjectClicked(hit)
    \/ DocButtonClick
    \/ \E n \in 1..Len(worldTree) : UserSelects(n)

MeasStep ==
    \E field \in MeasurementFields :
        \E value \in FieldValues(field) : FieldChange(field, value)

\* main.ts: start-up, then the control panel and the scene.
Next == StartupStep \/ UiStep

Spec == Init /\ [][Next]_vars

\* MeasurementsUI.ts: start-up of an empty scene, then the measurement panel.
NextMeas ==
    \/ \E ok \in BOOLEAN : ViewerInitSettles(ok)
    \/ \E ok \in BOOLEAN, n \in 0..MaxUrls : UrlsSettle(ok, n)
    \/ \E i \in 1..MaxUrls, ok \in BOOLEAN : LoadSettles(i, ok, <<>>)
    \/ MeasStep

SpecMeas == Init /\ [][NextMeas]_vars

\* ------------------------------------------------------------------ claims
NamedValues == {"catalyseur", "echappement"}

Ready == mainState = "ready"

\* The Doc buttons of the pane, by position.
DocPositions == {i \in 1..Len(pane) : IsDoc(pane[i])}

\* btnUrlDoc refers to the one Doc button of the pane, which has the given
\* disabled flag and whose click opens the given URL ({}: opens nothing).
DocButtonIs(disabled, opens) ==
    /\ btnUrlDoc # Null
    /\ Cardinality(DocPositions) = 1
    /\ \A i \in DocPositions :
          /\ pane[i].id = btnUrlDoc
          /\ pane[i].disabled = disabled
          /\ pane[i].opens = opens

\* A string with at least one character that is not white space.
NonBlank(s) == \E i \in 1..Len(s) : s[i] # SP

\* The node carries a URL_DOC value under its user-data properties.
CarriesUrlDoc(node) == node.hasProps /\ node.urlDoc # {}

\* The node carries a URL_DOC value that is not blank.
CarriesNonBlankUrlDoc(node) ==
    node.hasProps /\ \E s \in node.urlDoc : NonBlank(s)

\* C1: a dropdown change to 'catalyseur' or 'echappement' whose hard-coded
\* id is a key of the id-to-node map clears the selection and sets the
\* camera view to exactly the one-element list holding the model id of the
\* node stored under that id, with transition enabled.
C1_DropdownZoomsOnMappedNode ==
    [][\A value \in NamedValues :
          (DropdownChange(value) /\ HardCodedId(value) \in DOMAIN treeNodeMap)
          => /\ selection' = {}
             /\ cameraView' =
                  [set |-> TRUE,
                   ids |-> <<ModelId(treeNodeMap[HardCodedId(value)])>>,
                   transition |-> TRUE]]_vars

\* The camera is on the node mapped under the catalyseur id while the
\* echappement id is mapped to another node.
C1_Witness ==
    /\ Ready
    /\ ID_CATALYSEUR \in DOMAIN treeNodeMap
    /\ ID_ECHAPPEMENT \in DOMAIN treeNodeMap
    /\ cameraView = [set |-> TRUE,
                     ids |-> <<ModelId(treeNodeMap[ID_CATALYSEUR])>>,
                     transition |-> TRUE]
    /\ selection = {}

\* C2 as stated: after an ObjectClicked event with a hit, the Doc button is
\* enabled and opens the URL_DOC of the first hit node when that node carries
\* a URL_DOC value, and is disabled when it carries none.
C2_Original ==
    [][\A hit \in 1..Len(worldTree) :
          ObjectClicked(hit) =>
              IF CarriesUrlDoc(worldTree[hit])
              THEN DocButtonIs(FALSE, worldTree[hit].urlDoc)'
              ELSE DocButtonIs(TRUE, {})']_vars

\* C2 (amended): after an ObjectClicked event with a hit, the Doc button is
\* enabled and its click opens exactly the URL_DOC of the first hit node when
\* that node carries a URL_DOC that is not blank, and the Doc button is
\* disabled when the node carries none or a blank one, whatever events came
\* before; a click on the Doc button opens the URL of the current button.
C2_ClickSetsDocButton ==
    [][/\ \A hit \in 1..Len(worldTree) :
            ObjectClicked(hit) =>
                IF CarriesNonBlankUrlDoc(worldTree[hit])
                THEN DocButtonIs(FALSE, worldTree[hit].urlDoc)'
                ELSE DocButtonIs(TRUE, {})'
       /\ DocButtonClick =>
            \E u \in SUBSET UNION {worldTree[i].urlDoc : i \in 1..Len(worldTree)} :
                DocButtonIs(FALSE, u) /\ windowOpened' = u]_vars

\* No dropdown change has happened; a URL was opened from the button made by
\* a click on the node with a usable URL_DOC, and the node with a blank
\* URL_DOC was clicked since: the button is disabled.
C2_Witness ==
    /\ Ready
    /\ Len(worldTree) = 2
    /\ worldTree[1].urlDoc = UrlBlank
    /\ worldTree[2].urlDoc = UrlA
    /\ windowOpened = UrlA
    /\ DocButtonIs(TRUE, {})
    /\ ~cameraView.set
    /\ consoleLog = {}

\* C3: every measurement field whose control has fired a change event has
\* the same value in the extension (extension.enabled for 'enabled', the
\* entry of extension.options for the others) as in the panel parameters.
C3_FieldsMirrored ==
    \A field \in changed :
        IF field = "enabled"
        THEN extEnabled = {measurementsParams.enabled}
        ELSE /\ extOptions # {}
             /\ \A o \in extOptions : o[field] = measurementsParams[field]

\* All six controls have changed and every parameter differs from its
\* initial value.
C3_Witness ==
    /\ changed = MeasurementFields
    /\ \A field \in MeasurementFields :
          measurementsParams[field] # InitialMeasurementsParams[field]

\* C4: a dropdown change to a named element whose id is not a key of the
\* map only logs: selection, camera view, Doc button, map and the
\* sections-enabled flag (and everything but the console) stay unchanged.
C4_MissingIdOnlyLogs ==
    [][\A value \in NamedValues :
          (DropdownChange(value) /\ HardCodedId(value) \notin DOMAIN treeNodeMap)
          => /\ UNCHANGED <<selection, cameraView, pane, btnUrlDoc,
                            treeNodeMap, sectionEnabled, sectionsOn>>
             /\ UNCHANGED <<startVars, measVars, windowOpened>>
             /\ consoleLog' = consoleLog \cup {value}]_vars

\* The failed lookup of 'catalyseur' was logged in a state that had a
\* selection, a camera view and an enabled Doc button to lose.
C4_Witness ==
    /\ Ready
    /\ "catalyseur" \in consoleLog
    /\ ID_CATALYSEUR \notin DOMAIN treeNodeMap
    /\ selection # {}
    /\ cameraView.set /\ cameraView.ids # <<>>
    /\ \E u \in {UrlB} : DocButtonIs(FALSE, u)
    /\ ~sectionEnabled

AllLoads(status) == \A i \in 1..Len(loadState) : loadState[i] = status

Pending ==
    (IF viewerInit = "pending" THEN 1 ELSE 0)
    + (IF urlRes = "pending" THEN 1 ELSE 0)
    + Cardinality({i \in 1..Len(loadState) : loadState[i] = "pending"})

\* C5: the start-up sequence is strictly ordered with no overlap: URL
\* resolution starts only after viewer initialization completed, a load
\* starts only after URL resolution and every earlier load completed, and
\* the spinner is stopped, the two panels are built and the click handler is
\* registered only after the last load completed.
C5_StartupOrdered ==
    /\ urlRes # "none" => viewerInit = "done"
    /\ \A i \in 1..Len(loadState) :
          loadState[i] # "none" =>
              /\ urlRes = "done"
              /\ \A j \in 1..(i - 1) : loadState[j] = "done"
    /\ Pending <= 1
    /\ (~spinning \/ measPane \/ pane # <<>> \/ clickHandler \/ Ready) =>
          /\ viewerInit = "done"
          /\ urlRes = "done"
          /\ AllLoads("done")
          /\ Pending = 0

\* Two loads have completed and the start-up has finished.
C5_Witness ==
    /\ Len(loadState) >= 2
    /\ AllLoads("done")
    /\ ~spinning /\ measPane /\ pane # <<>> /\ clickHandler

Failed ==
    \/ viewerInit = "failed"
    \/ urlRes = "failed"
    \/ \E i \in 1..Len(loadState) : loadState[i] = "failed"

\* C6: if viewer initialization, URL resolution or a load fails, start-up
\* halts at that step: no later step runs, the spinner is never stopped, the
\* map is never built, no panel is created, no click handler is registered,
\* and nothing happens afterwards (no catch, no retry).
C6_FailureHalts ==
    /\ [](Failed =>
            /\ mainState = "rejected"
            /\ Pending = 0
            /\ spinning
            /\ mapBuilds = 0 /\ DOMAIN treeNodeMap = {}
            /\ ~measPane /\ pane = <<>>
            /\ ~clickHandler
            /\ (viewerInit = "failed" => urlRes = "none")
            /\ (urlRes = "failed" => loadState = <<>>)
            /\ \A i \in 1..Len(loadState) :
                  loadState[i] = "failed" =>
                      \A j \in (i + 1)..Len(loadState) : loadState[j] = "none")
    /\ [][mainState = "rejected" => UNCHANGED vars]_vars

\* The second of two loads has failed after the first completed.
C6_Witness ==
    /\ Len(loadState) = 2
    /\ loadState[1] = "done"
    /\ loadState[2] = "failed"
    /\ mainState = "rejected"
    /\ Len(worldTree) > 0

\* The references of the nodes that have a non-empty properties.id.
NodesWithId ==
    {i \in 1..Len(worldTree) : worldTree[i].hasProps /\ worldTree[i].id # ""}

\* C7: the map is built exactly once, after all loads completed: its keys
\* are exactly the non-empty properties.id values of the scene's nodes, the
\* node under a key has that key as its properties.id, and no event
\* afterwards adds, removes or replaces an entry.
C7_MapBuiltOnce ==
    /\ [](/\ mapBuilds = (IF Ready THEN 1 ELSE 0)
          /\ ~Ready => DOMAIN treeNodeMap = {}
          /\ Ready =>
               /\ urlRes = "done" /\ AllLoads("done")
               /\ DOMAIN treeNodeMap = {worldTree[i].id : i \in NodesWithId}
               /\ \A k \in DOMAIN treeNodeMap :
                     /\ treeNodeMap[k] \in NodesWithId
                     /\ worldTree[treeNodeMap[k]].id = k)
    /\ [][Ready => /\ Ready'
                   /\ treeNodeMap' = treeNodeMap
                   /\ mapBuilds' = mapBuilds
                   /\ worldTree' = worldTree]_vars

\* Two nodes carry the same id and a third kind of node none; the map has
\* one key, and events have happened since it was built.
C7_Witness ==
    /\ Ready
    /\ Len(worldTree) = 2
    /\ worldTree[1].id = ID_CATALYSEUR
    /\ worldTree[2].id = ID_CATALYSEUR
    /\ DOMAIN treeNodeMap = {ID_CATALYSEUR}
    /\ btnUrlDoc # Null
    /\ consoleLog # {}

\* C8: after every dropdown change to 'all' the selection is cleared, the
\* camera view has been set with an empty id list, and the Doc button
\* exists and is disabled.
C8_AllResetsView ==
    [][DropdownChange("all") =>
          /\ selection' = {}
          /\ cameraView'.set /\ cameraView'.ids = <<>>
          /\ DocButtonIs(TRUE, {})']_vars

\* The general view was set after a URL had been opened from an enabled
\* button and after a zoom had been logged as failed.
C8_Witness ==
    /\ Ready
    /\ cameraView = [set |-> TRUE, ids |-> <<>>, transition |-> FALSE]
    /\ selection = {}
    /\ DocButtonIs(TRUE, {})
    /\ windowOpened # {}
    /\ "all" \in consoleLog

\* C9: the pane holds at most one Doc button; btnUrlDoc is null when no Doc
\* button was ever created and otherwise refers to the one Doc button in the
\* pane, so the previous button was removed before each creation.
C9_OneDocButton ==
    /\ Cardinality(DocPositions) <= 1
    /\ btnUrlDoc = Null => DocPositions = {}
    /\ btnUrlDoc # Null =>
          /\ Cardinality(DocPositions) = 1
          /\ \A i \in DocPositions : pane[i].id = btnUrlDoc
    /\ Cardinality(BladeIds(pane)) = Len(pane)

\* A Doc button is in the pane after at least two creations: a URL was
\* opened from an enabled button and the current button is disabled.
C9_Witness ==
    /\ btnUrlDoc # Null
    /\ windowOpened # {}
    /\ \A i \in DocPositions : pane[i].disabled

\* C10: the 'node not found' message is logged only for a named element
\* whose id lookup failed; a change to 'all' never logs it.
C10_LogOnlyOnFailedLookup ==
    \A value \in consoleLog :
        /\ value \in NamedValues
        /\ HardCodedId(value) \notin DOMAIN treeNodeMap

====
